---- MODULE Spec2Model ----
(***************************************************************************)
(* A model of src/main.rs: a plotter that shades every pixel of a bitmap   *)
(* by the escape time of the orbit z <- z*z + c started at the pixel's     *)
(* point of the complex plane.  Eight threads take one-row bands from a    *)
(* shared AtomicChunksMut and render them into one pixel buffer.           *)
(*                                                                         *)
(* Numbers.  usize is modelled UsizeBits wide (arithmetic % 2^UsizeBits).  *)
(* f64 is modelled by exact rationals <<n, d>>, d > 0, in lowest terms:    *)
(* rounding is not modelled.  Option values are <<>> (None) and <<v>>      *)
(* (Some(v)).  Strings are sequences of one-character strings.             *)
(***************************************************************************)
EXTENDS Integers, Sequences, FiniteSets, TLC

\* ---------------------------------------------------------------- bounds
UsizeBits == 3
MaxWidth == 3
MaxHeight == 3
MaxStrLen == 4

\* ------------------------------------------------------ program constants
WorkerCount == 8
IterLimit == 255
EscapeNormSqr == 4
U8Max == 255

RECURSIVE Pow2(_)
Pow2(n) == IF n = 0 THEN 1 ELSE 2 * Pow2(n - 1)

UsizeModulus == Pow2(UsizeBits)

None == <<>>
Some(v) == <<v>>
IsSome(o) == Len(o) = 1
Unwrap(o) == o[1]

\* ------------------------------------------------------------- rationals
Abs(n) == IF n < 0 THEN -n ELSE n

RECURSIVE Gcd(_, _)
Gcd(a, b) == IF b = 0 THEN a ELSE Gcd(b, a % b)

\* The rational n/d in lowest terms with a positive denominator (d # 0).
Rat(n, d) ==
    LET g == Gcd(Abs(n), Abs(d))
        s == IF d < 0 THEN -1 ELSE 1
    IN <<(s * n) \div g, (s * d) \div g>>

RInt(n) == <<n, 1>>
RAdd(a, b) == Rat(a[1] * b[2] + b[1] * a[2], a[2] * b[2])
RSub(a, b) == Rat(a[1] * b[2] - b[1] * a[2], a[2] * b[2])
RMul(a, b) == Rat(a[1] * b[1], a[2] * b[2])
RDiv(a, b) == Rat(a[1] * b[2], a[2] * b[1])
RGreater(a, b) == a[1] * b[2] > b[1] * a[2]

\* Complex<f64>: [re, im] of rationals.
Complex(re, im) == [re |-> re, im |-> im]
CAdd(a, b) == Complex(RAdd(a.re, b.re), RAdd(a.im, b.im))
CMul(a, b) == Complex(RSub(RMul(a.re, b.re), RMul(a.im, b.im)),
                      RAdd(RMul(a.re, b.im), RMul(a.im, b.re)))
norm_sqr(z) == RAdd(RMul(z.re, z.re), RMul(z.im, z.im))

\* ------------------------------------------------------------ parse_pair
\* How a call ends: it returns a value or it panics.
Returned(v) == <<"returned", v>>
Panicked == <<"panicked">>

\* A &str is a sequence of chars; its indices count the bytes of UTF-8.
\* "e_acute" names U+00E9, a char of two bytes; every other char explored
\* is ASCII.
Utf8Len(ch) == IF ch = "e_acute" THEN 2 ELSE 1

RECURSIVE StrLen(_)
StrLen(s) == IF s = <<>> THEN 0 ELSE Utf8Len(Head(s)) + StrLen(Tail(s))

\* s.find(separator): the byte index of the first separator, or None.
RECURSIVE str_find(_, _)
str_find(s, separator) ==
    IF s = <<>> THEN None
    ELSE IF Head(s) = separator THEN Some(0)
    ELSE LET rest == str_find(Tail(s), separator)
         IN IF IsSome(rest) THEN Some(Utf8Len(Head(s)) + Unwrap(rest))
            ELSE None

\* &s[..index] and &s[index..]: the slice, or a panic when index is past
\* the end or inside a char.
RECURSIVE str_to(_, _)
str_to(s, index) ==
    IF index = 0 THEN Returned(<<>>)
    ELSE IF s = <<>> \/ Utf8Len(Head(s)) > index THEN Panicked
    ELSE LET rest == str_to(Tail(s), index - Utf8Len(Head(s)))
         IN IF rest = Panicked THEN Panicked
            ELSE Returned(<<Head(s)>> \o rest[2])

RECURSIVE str_from(_, _)
str_from(s, index) ==
    IF index = 0 THEN Returned(s)
    ELSE IF s = <<>> \/ Utf8Len(Head(s)) > index THEN Panicked
    ELSE str_from(Tail(s), index - Utf8Len(Head(s)))

Digits == {"0", "1", "2", "3", "4", "5", "6", "7", "8", "9"}

DigitValue(ch) == CHOOSE n \in 0..9 : ch = ToString(n)

RECURSIVE digits_value(_, _)
digits_value(s, acc) ==
    IF s = <<>> THEN acc ELSE digits_value(Tail(s), 10 * acc + DigitValue(Head(s)))

\* i32::from_str: an optional sign and at least one decimal digit, nothing
\* else.  (No string explored is long enough to leave the range of i32.)
from_str(s) ==
    LET signed == s # <<>> /\ Head(s) \in {"+", "-"}
        digits == IF signed THEN Tail(s) ELSE s
    IN IF digits = <<>> \/ \E k \in 1..Len(digits) : digits[k] \notin Digits
       THEN None
       ELSE Some(IF signed /\ Head(s) = "-" THEN -digits_value(digits, 0)
                 ELSE digits_value(digits, 0))

parse_pair(s, separator) ==
    LET found == str_find(s, separator)
    IN IF ~IsSome(found) THEN Returned(None)
       ELSE LET index == Unwrap(found)
                left == str_to(s, index)
                right == str_from(s, index + 1)
            IN IF left = Panicked \/ right = Panicked THEN Panicked
               ELSE LET l == from_str(left[2])
                        r == from_str(right[2])
                    IN IF IsSome(l) /\ IsSome(r)
                       THEN Returned(Some(<<Unwrap(l), Unwrap(r)>>))
                       ELSE Returned(None)

\* -------------------------------------------------------- pixel_to_point
\* pixel_to_point finding the middle of the pixel, not its upper left corner.
pixel_to_point_middle(bounds, pixel, upper_left, lower_right) ==
    LET width == RSub(lower_right[1], upper_left[1])
        height == RSub(upper_left[2], lower_right[2])
    IN <<RAdd(upper_left[1],
              RDiv(RMul(Rat(2 * pixel[1] + 1, 2), width), RInt(bounds[1]))),
         RSub(upper_left[2],
              RDiv(RMul(Rat(2 * pixel[2] + 1, 2), height), RInt(bounds[2])))>>

\* bounds and pixel are pairs of usize, the corners pairs of rationals.
pixel_to_point(bounds, pixel, upper_left, lower_right) ==
    LET width == RSub(lower_right[1], upper_left[1])
        height == RSub(upper_left[2], lower_right[2])
    IN <<RAdd(upper_left[1],
              RDiv(RMul(RInt(pixel[1]), width), RInt(bounds[1]))),
         RSub(upper_left[2],
              RDiv(RMul(RInt(pixel[2]), height), RInt(bounds[2])))>>

\* --------------------------------------------------------------- escapes
\* The activation of escapes: z, the loop's i, and ret, which is None while
\* the loop runs and Some(result) once the function has returned.
escapes_enter(z) == [z |-> z, i |-> 0, ret |-> None]

\* A pass that returns the number of iterations made, not the index of the
\* last.
escapes_pass_counts_from_one(s, c, limit) ==
    IF IsSome(s.ret) THEN s
    ELSE IF s.i >= limit THEN [s EXCEPT !.ret = Some(None)]
    ELSE LET z1 == CAdd(CMul(s.z, s.z), c)
         IN IF RGreater(norm_sqr(z1), RInt(EscapeNormSqr))
            THEN [s EXCEPT !.z = z1, !.ret = Some(Some(s.i + 1))]
            ELSE [s EXCEPT !.z = z1, !.i = s.i + 1]

\* One pass of `for i in 0..limit`: the header, and the body if it runs.
escapes_pass(s, c, limit) ==
    IF IsSome(s.ret) THEN s
    ELSE IF s.i >= limit THEN [s EXCEPT !.ret = Some(None)]
    ELSE LET z1 == CAdd(CMul(s.z, s.z), c)
         IN IF RGreater(norm_sqr(z1), RInt(EscapeNormSqr))
            THEN [s EXCEPT !.z = z1, !.ret = Some(Some(s.i))]
            ELSE [s EXCEPT !.z = z1, !.i = s.i + 1]

\* n passes in sequence (split in halves to bound the evaluation depth).
RECURSIVE escapes_passes(_, _, _, _)
escapes_passes(s, c, limit, n) ==
    IF n = 0 THEN s
    ELSE IF n = 1 THEN escapes_pass(s, c, limit)
    ELSE LET half == escapes_passes(s, c, limit, n \div 2)
         IN IF IsSome(half.ret) THEN half
            ELSE escapes_passes(half, c, limit, n - n \div 2)

\* The loop returns within limit + 1 passes.
escapes(z, c, limit) ==
    Unwrap(escapes_passes(escapes_enter(z), c, limit, limit + 1).ret)

\* escapes(z, c, IterLimit) as render calls it, tabulated once over the
\* plane points with whole coordinates of magnitude at most GridRadius
\* (a point farther out leaves the circle in the first pass); any other
\* argument is computed by the call itself.
GridRadius == EscapeNormSqr \div 2
GridAxis == {RInt(n) : n \in -GridRadius..GridRadius}
GridComplex == {Complex(re, im) : re \in GridAxis, im \in GridAxis}
ParamComplex == {Complex(RInt(0), RInt(0)), Complex(RInt(-1), RInt(0))}

EscapesTable ==
    [a \in GridComplex \X ParamComplex |-> escapes(a[1], a[2], IterLimit)]
        @@ [a \in {} |-> None]

OnGrid(x) == x[2] = 1 /\ -GridRadius <= x[1] /\ x[1] <= GridRadius

escapes_at(z, c) ==
    IF OnGrid(z.re) /\ OnGrid(z.im) /\ c \in ParamComplex
    THEN EscapesTable[<<z, c>>]
    ELSE escapes(z, c, IterLimit)

\* ---------------------------------------------------------------- render
UMul(a, b) == (a * b) % UsizeModulus

Zeros(n) == [k \in 1..n |-> 0]

\* `255 - count as u8`: the cast binds tighter than the subtraction.
Shade(outcome) ==
    IF IsSome(outcome) THEN U8Max - (Unwrap(outcome) % (U8Max + 1)) ELSE 0

\* The activation of one call of render.  pc is "assert" on entry, "loop"
\* before each pixel, "returned" after the loops, "panicked" when the
\* assertion or a slice index check failed.  writes counts the stores made
\* at each index, point and outcome are the locals of the last iteration.
render_enter(param, pixels, bounds, upper_left, lower_right) ==
    [pc |-> "assert", pixels |-> pixels, bounds |-> bounds,
     upper_left |-> upper_left, lower_right |-> lower_right, param |-> param,
     r |-> 0, c |-> 0, writes |-> Zeros(Len(pixels)),
     point |-> None, outcome |-> None]

\* assert!(pixels.len() == bounds.0 * bounds.1).  The product is taken
\* modulo the word size; no call in this model makes it wrap.
render_assert(f) ==
    IF Len(f.pixels) # UMul(f.bounds[1], f.bounds[2])
    THEN [f EXCEPT !.pc = "panicked"]
    ELSE IF f.bounds[1] = 0 \/ f.bounds[2] = 0
         THEN [f EXCEPT !.pc = "returned"]
         ELSE [f EXCEPT !.pc = "loop"]

\* An iteration that stores the pixel column by column.
render_pixel_by_column(f) ==
    LET point == pixel_to_point(f.bounds, <<f.c, f.r>>,
                                f.upper_left, f.lower_right)
        outcome == escapes_at(Complex(point[1], point[2]), f.param)
        index == f.c * f.bounds[2] + f.r
        lastc == f.c + 1 = f.bounds[1]
        lastr == f.r + 1 = f.bounds[2]
    IN IF index >= Len(f.pixels)
       THEN [f EXCEPT !.pc = "panicked", !.point = Some(point),
                      !.outcome = outcome]
       ELSE [f EXCEPT !.pixels[index + 1] = Shade(outcome),
                      !.writes[index + 1] = @ + 1,
                      !.point = Some(point),
                      !.outcome = outcome,
                      !.c = IF lastc THEN 0 ELSE f.c + 1,
                      !.r = IF lastc THEN f.r + 1 ELSE f.r,
                      !.pc = IF lastc /\ lastr THEN "returned" ELSE "loop"]

\* One iteration of the inner loop, at (f.c, f.r), and the loop headers
\* that follow it.
render_pixel(f) ==
    LET point == pixel_to_point(f.bounds, <<f.c, f.r>>,
                                f.upper_left, f.lower_right)
        outcome == escapes_at(Complex(point[1], point[2]), f.param)
        index == f.r * f.bounds[1] + f.c
        lastc == f.c + 1 = f.bounds[1]
        lastr == f.r + 1 = f.bounds[2]
    IN IF index >= Len(f.pixels)
       THEN [f EXCEPT !.pc = "panicked", !.point = Some(point),
                      !.outcome = outcome]
       ELSE [f EXCEPT !.pixels[index + 1] = Shade(outcome),
                      !.writes[index + 1] = @ + 1,
                      !.point = Some(point),
                      !.outcome = outcome,
                      !.c = IF lastc THEN 0 ELSE f.c + 1,
                      !.r = IF lastc THEN f.r + 1 ELSE f.r,
                      !.pc = IF lastc /\ lastr THEN "returned" ELSE "loop"]

render_step(f) ==
    IF f.pc = "assert" THEN render_assert(f) ELSE render_pixel(f)

RECURSIVE render_run(_)
render_run(f) ==
    IF f.pc \in {"returned", "panicked"} THEN f ELSE render_run(render_step(f))

\* A whole call of render: the activation when it returns or panics.
render(param, pixels, bounds, upper_left, lower_right) ==
    render_run(render_enter(param, pixels, bounds, upper_left, lower_right))

\* ------------------------------------------------------------------ main
VARIABLES
    pcMain,       \* where main is: "alloc", "spawn", "join", "write_bitmap",
                  \* "exit", "panicked"
    bounds,       \* <<width, height>>, parsed from args[2]
    upper_left,   \* parsed from args[3]
    lower_right,  \* parsed from args[4]
    param,        \* c, parsed from args[5]
    pixels,       \* the pixel buffer
    bands,        \* the AtomicChunksMut: [len, step, next]
    spawned,      \* how many threads the scope has spawned (the loop's i)
    wpc,          \* each thread: "idle", "next", "render", "returned", "panicked"
    wband,        \* each thread's (i, band): None or Some([i, start, len])
    wcount,       \* each thread's count
    covered,      \* for each byte, how many bands passed to render held it
    encoded,      \* what write_bitmap was given: None or Some(pixels)
    frame,        \* the activation of a render call observed on its own
    call          \* a call of a pure function observed on its own

vars == <<pcMain, bounds, upper_left, lower_right, param, pixels, bands,
          spawned, wpc, wband, wcount, covered, encoded, frame, call>>

mainVars == <<pcMain, bounds, upper_left, lower_right, param, pixels, bands,
              spawned, wpc, wband, wcount, covered, encoded>>

Workers == 1..WorkerCount

Point(re, im) == <<RInt(re), RInt(im)>>

\* The command lines explored: a bitmap MaxWidth wide (the width only sets
\* the length of a band) and up to MaxHeight high, corners a whole number of
\* plane units apart per pixel, and one parameter c.
BoundsInputs == {MaxWidth} \X (0..MaxHeight)
CornerInputs == {<<-1, 1>>}
ParamInputs == {Complex(RInt(-1), RInt(0))}

MainIdle ==
    /\ pcMain = "idle" /\ bounds = <<0, 0>>
    /\ upper_left = Point(0, 0) /\ lower_right = Point(0, 0)
    /\ param = Complex(RInt(0), RInt(0))
    /\ pixels = <<>> /\ bands = [len |-> 0, step |-> 0, next |-> 0]
    /\ spawned = 0
    /\ wpc = [w \in Workers |-> "idle"]
    /\ wband = [w \in Workers |-> None]
    /\ wcount = [w \in Workers |-> 0]
    /\ covered = <<>> /\ encoded = None

\* main after its arguments are parsed (lines 136-156).
Init ==
    /\ pcMain = "alloc"
    /\ bounds \in BoundsInputs
    /\ \E ul \in CornerInputs :
          /\ upper_left = Point(ul[1], ul[2])
          /\ lower_right = Point(ul[1] + bounds[1], ul[2] - bounds[2])
    /\ param \in ParamInputs
    /\ pixels = <<>>
    /\ bands = [len |-> 0, step |-> 0, next |-> 0]
    /\ spawned = 0
    /\ wpc = [w \in Workers |-> "idle"]
    /\ wband = [w \in Workers |-> None]
    /\ wcount = [w \in Workers |-> 0]
    /\ covered = <<>>
    /\ encoded = None
    /\ frame = None
    /\ call = None

\* vec![0; bounds.0 * bounds.1] and AtomicChunksMut::new(&mut pixels,
\* bounds.0).  A product that does not fit usize wraps in a build without
\* overflow checks and panics in a build with them.
Allocated(len) ==
    /\ pixels' = Zeros(len)
    /\ covered' = Zeros(len)
    /\ bands' = [len |-> len, step |-> bounds[1], next |-> 0]
    /\ pcMain' = "spawn"

Alloc ==
    /\ pcMain = "alloc"
    /\ \/ Allocated(UMul(bounds[1], bounds[2]))
       \/ /\ bounds[1] * bounds[2] >= UsizeModulus
          /\ pcMain' = "panicked"
          /\ UNCHANGED <<pixels, covered, bands>>
    /\ UNCHANGED <<bounds, upper_left, lower_right, param, spawned, wpc,
                   wband, wcount, encoded, frame, call>>

\* scope.spawn, once per iteration of for i in 0..8.
Spawn ==
    /\ pcMain = "spawn"
    /\ IF spawned < WorkerCount
       THEN /\ spawned' = spawned + 1
            /\ wpc' = [wpc EXCEPT ![spawned + 1] = "next"]
            /\ UNCHANGED pcMain
       ELSE /\ pcMain' = "join"
            /\ UNCHANGED <<spawned, wpc>>
    /\ UNCHANGED <<bounds, upper_left, lower_right, param, pixels, bands,
                   wband, wcount, covered, encoded, frame, call>>

Min(a, b) == IF a < b THEN a ELSE b

\* A source that hands out chunks of two steps.
chunks_next_two_steps(b) ==
    IF b.next = b.len
    THEN None
    ELSE Some([i |-> b.next \div b.step, start |-> b.next,
               len |-> Min(b.next + 2 * b.step, b.len) - b.next])

\* The next item of `for (i, band) in &bands`: the chunk of at most step
\* elements at the shared position, with its index, or None at the end of
\* the slice.  The position is advanced atomically.
chunks_next(b) ==
    IF b.next = b.len
    THEN None
    ELSE Some([i |-> b.next \div b.step, start |-> b.next,
               len |-> Min(b.next + b.step, b.len) - b.next])

\* A source whose position does not move: it hands the same band out again.
chunks_advance_stale(b, band) == b

\* The source after it handed out band: its position is past the band.
chunks_advance(b, band) == [b EXCEPT !.next = band.start + band.len]

\* The loop header takes a band, and count += 1.
WorkerTake(w) ==
    /\ wpc[w] = "next"
    /\ IsSome(chunks_next(bands))
    /\ LET band == Unwrap(chunks_next(bands))
       IN /\ bands' = chunks_advance(bands, band)
          /\ wband' = [wband EXCEPT ![w] = Some(band)]
    /\ wcount' = [wcount EXCEPT ![w] = @ + 1]
    /\ wpc' = [wpc EXCEPT ![w] = "render"]
    /\ UNCHANGED <<pcMain, bounds, upper_left, lower_right, param, pixels,
                   spawned, covered, encoded, frame, call>>

\* The loop header finds no band left: the closure returns.
WorkerReturn(w) ==
    /\ wpc[w] = "next"
    /\ ~IsSome(chunks_next(bands))
    /\ wpc' = [wpc EXCEPT ![w] = "returned"]
    /\ UNCHANGED <<pcMain, bounds, upper_left, lower_right, param, pixels,
                   bands, spawned, wband, wcount, covered, encoded, frame, call>>

\* The band rendered between the corners of the whole bitmap.
band_frame_full_corners(band) ==
    render_enter(param,
                 SubSeq(pixels, band.start + 1, band.start + band.len),
                 <<bounds[1], band.len \div bounds[1]>>,
                 upper_left, lower_right)

\* The call of render a thread makes for the band it holds (lines 169-177),
\* on entry.
band_frame(band) ==
    LET top == band.i
        height == band.len \div bounds[1]
        band_bounds == <<bounds[1], height>>
        band_upper_left == pixel_to_point(bounds, <<0, top>>,
                                          upper_left, lower_right)
        band_lower_right == pixel_to_point(bounds, <<bounds[1], top + height>>,
                                           upper_left, lower_right)
    IN render_enter(param,
                    SubSeq(pixels, band.start + 1, band.start + band.len),
                    band_bounds, band_upper_left, band_lower_right)

band_call(band) == render_run(band_frame(band))

\* The body of the loop: render the band in place.
WorkerRender(w) ==
    /\ wpc[w] = "render"
    /\ \E band \in {Unwrap(wband[w])} : \E f \in {band_call(band)} :
       LET in_band(k) == band.start < k /\ k <= band.start + band.len
       IN /\ pixels' = [k \in 1..Len(pixels) |->
                          IF in_band(k) THEN f.pixels[k - band.start]
                          ELSE pixels[k]]
          /\ covered' = [k \in 1..Len(covered) |->
                          IF in_band(k) THEN covered[k] + 1 ELSE covered[k]]
          /\ wpc' = [wpc EXCEPT ![w] =
                          IF f.pc = "panicked" THEN "panicked" ELSE "next"]
    /\ wband' = [wband EXCEPT ![w] = None]
    /\ UNCHANGED <<pcMain, bounds, upper_left, lower_right, param, bands,
                   spawned, wcount, encoded, frame, call>>

Finished(w) == wpc[w] \in {"returned", "panicked"}

\* crossbeam::scope returns: every spawned thread is joined, and the panic
\* of a thread is raised again in main.
\* A scope that waits for the bands to be taken, not for the threads.
scope_joined_bands_taken == bands.next = bands.len

scope_joined == \A w \in Workers : Finished(w)

\* A scope that drops the panic of a thread.
scope_exit_drops_panic == "write_bitmap"

scope_exit ==
    IF \E w \in Workers : wpc[w] = "panicked" THEN "panicked" ELSE "write_bitmap"

ScopeExit ==
    /\ pcMain = "join"
    /\ scope_joined
    /\ pcMain' = scope_exit
    /\ UNCHANGED <<bounds, upper_left, lower_right, param, pixels, bands,
                   spawned, wpc, wband, wcount, covered, encoded, frame, call>>

\* write_bitmap(...).expect(...): the buffer is handed to the encoder; an
\* I/O error makes main panic.
WriteBitmap ==
    /\ pcMain = "write_bitmap"
    /\ encoded' = Some(pixels)
    /\ \E io_ok \in BOOLEAN : pcMain' = IF io_ok THEN "exit" ELSE "panicked"
    /\ UNCHANGED <<bounds, upper_left, lower_right, param, pixels, bands,
                   spawned, wpc, wband, wcount, covered, frame, call>>

Next ==
    \/ Alloc
    \/ Spawn
    \/ \E w \in Workers : WorkerTake(w)
    \/ \E w \in Workers : WorkerReturn(w)
    \/ \E w \in Workers : WorkerRender(w)
    \/ ScopeExit
    \/ WriteBitmap

Spec == Init /\ [][Next]_vars

\* ------------------------------------------------- render, call by call
\* The calls of render explored on their own: sub-bounds whose product fits
\* usize, a zeroed buffer of that length or one byte longer (the assertion
\* then fails), corners a whole number of plane units apart per pixel.
PitchInputs == {1, 2}

RenderInputs ==
    {render_enter(c, Zeros(b[1] * b[2] + extra), b,
                  Point(ul[1], ul[2]),
                  Point(ul[1] + b[1] * px, ul[2] - b[2] * py)) :
        c \in ParamComplex,
        b \in {x \in (0..MaxWidth) \X (0..MaxHeight) :
                  x[1] * x[2] + 1 < UsizeModulus},
        ul \in CornerInputs, px \in PitchInputs, py \in PitchInputs,
        extra \in {0, 1}}

RenderInit ==
    /\ MainIdle
    /\ frame \in {Some(f) : f \in RenderInputs}
    /\ call = None

RenderStep ==
    /\ IsSome(frame)
    /\ Unwrap(frame).pc \in {"assert", "loop"}
    /\ frame' = Some(render_step(Unwrap(frame)))
    /\ UNCHANGED mainVars
    /\ UNCHANGED call

RenderNext == RenderStep

RenderSpec == RenderInit /\ [][RenderNext]_vars

\* ------------------------------------------- the pure functions, by call
Alphabet == {"1", "0", "-", ",", "x", "e_acute"}
Separators == {",", "x", "e_acute"}
Strings(n) == UNION {[1..k -> Alphabet] : k \in 0..n}

\* The strings of test_parse_pair for i32.
TestStrings ==
    {<<>>, <<"1", "0", ",">>, <<",", "1", "0">>,
     <<"1", "0", ",", "2", "0">>,
     <<"1", "0", ",", "2", "0", "x", "y">>}

ParseCalls ==
    {[fn |-> "parse_pair", args |-> <<s, sep>>, ret |-> None] :
        s \in Strings(MaxStrLen) \cup TestStrings, sep \in Separators}

\* Corners with whole and with fractional coordinates.
CornerPairs ==
    {<<Point(-1, 1), Point(1, -1)>>,
     <<<<Rat(-6, 5), Rat(7, 20)>>, <<RInt(-1), Rat(1, 5)>>>>,
     <<Point(0, 0), Point(0, 0)>>}

\* The call of test_pixel_to_point.
TestPointArgs == <<<<100, 100>>, <<25, 75>>, Point(-1, 1), Point(1, -1)>>

PointCalls ==
    {[fn |-> "pixel_to_point", args |-> a, ret |-> None] :
        a \in {<<b, px, cp[1], cp[2]>> :
                  b \in (1..MaxWidth) \X (1..MaxHeight),
                  px \in (0..MaxWidth) \X (0..MaxHeight),
                  cp \in CornerPairs} \cup {TestPointArgs}}

CallInit ==
    /\ MainIdle
    /\ frame = None
    /\ \/ \E k \in ParseCalls : call = Some(k)
       \/ \E k \in PointCalls : call = Some(k)

Pending(fn) ==
    IsSome(call) /\ Unwrap(call).fn = fn /\ ~IsSome(Unwrap(call).ret)

CallParsePair ==
    /\ Pending("parse_pair")
    /\ LET a == Unwrap(call).args
       IN call' = Some([Unwrap(call) EXCEPT !.ret = Some(parse_pair(a[1], a[2]))])
    /\ UNCHANGED mainVars
    /\ UNCHANGED frame

CallPixelToPoint ==
    /\ Pending("pixel_to_point")
    /\ LET a == Unwrap(call).args
       IN call' = Some([Unwrap(call) EXCEPT
                          !.ret = Some(Returned(pixel_to_point(a[1], a[2], a[3], a[4])))])
    /\ UNCHANGED mainVars
    /\ UNCHANGED frame

CallNext == CallParsePair \/ CallPixelToPoint

CallSpec == CallInit /\ [][CallNext]_vars

\* ================================================================ claims
\* A call of fn that has ended, and what it ended with.
Ended(fn) == IsSome(call) /\ Unwrap(call).fn = fn /\ IsSome(Unwrap(call).ret)
CallArgs == Unwrap(call).args
CallRet == Unwrap(Unwrap(call).ret)

\* C7: pixel_to_point returns the upper left corner of the pixel's cell:
\* its offset from upper_left is col/width of the plane width to the right
\* and row/height of the plane height down (stated without division);
\* pixel (0, 0) gives upper_left, pixel (width, height) gives lower_right,
\* and the call of test_pixel_to_point gives (-0.5, -0.5).
C7_PixelToPoint ==
    Ended("pixel_to_point") =>
        LET b == CallArgs[1]
            px == CallArgs[2]
            ul == CallArgs[3]
            lr == CallArgs[4]
            p == CallRet[2]
        IN /\ CallRet[1] = "returned"
           /\ RMul(RSub(p[1], ul[1]), RInt(b[1]))
                 = RMul(RInt(px[1]), RSub(lr[1], ul[1]))
           /\ RMul(RSub(ul[2], p[2]), RInt(b[2]))
                 = RMul(RInt(px[2]), RSub(ul[2], lr[2]))
           /\ (px = <<0, 0>> => p = ul)
           /\ (px = b => p = lr)
           /\ (CallArgs = TestPointArgs => p = <<Rat(-1, 2), Rat(-1, 2)>>)

C7_Witness ==
    /\ Ended("pixel_to_point")
    /\ CallArgs = TestPointArgs
    /\ CallRet = Returned(<<Rat(-1, 2), Rat(-1, 2)>>)

\* The ways to cut s at an occurrence of separator that no separator
\* precedes: <<text before, text after>>.
FirstCuts(s, separator) ==
    {<<SubSeq(s, 1, k - 1), SubSeq(s, k + 1, Len(s))>> :
        k \in {j \in 1..Len(s) :
                  /\ s[j] = separator
                  /\ \A i \in 1..(j - 1) : s[i] # separator}}

\* What the claim has parse_pair return.
ParsePairExpected(s, separator) ==
    LET good == {cut \in FirstCuts(s, separator) :
                    IsSome(from_str(cut[1])) /\ IsSome(from_str(cut[2]))}
    IN IF good = {} THEN Returned(None)
       ELSE LET cut == CHOOSE x \in good : TRUE
            IN Returned(Some(<<Unwrap(from_str(cut[1])),
                               Unwrap(from_str(cut[2]))>>))

\* C8: parse_pair returns Some((l, r)) exactly when s holds the separator
\* and the text before its first occurrence and the text after it both
\* parse; in every other case it returns None.
C8_ParsePair ==
    Ended("parse_pair") => CallRet = ParsePairExpected(CallArgs[1], CallArgs[2])

\* C8 for the separators of one byte, which are those main passes.
C8_ParsePairAscii ==
    Ended("parse_pair") /\ Utf8Len(CallArgs[2]) = 1 =>
        CallRet = ParsePairExpected(CallArgs[1], CallArgs[2])

C8_AsciiWitness ==
    /\ Ended("parse_pair")
    /\ CallArgs = <<<<"1", "0", ",", "2", "0">>, ",">>
    /\ CallRet = Returned(Some(<<10, 20>>))

\* ---------------------------------------------------------- main's claims
Holding(w) == IsSome(wband[w])
Band(w) == Unwrap(wband[w])
BandBytes(band) == (band.start + 1)..(band.start + band.len)

\* Every thread has been spawned and has ended.
AllEnded == spawned = WorkerCount /\ \A w \in Workers : Finished(w)

\* write_bitmap is about to read the buffer, or has read it.
Encoding == pcMain \in {"write_bitmap", "exit"} \/ IsSome(encoded)

RECURSIVE SumTo(_, _)
SumTo(f, n) == IF n = 0 THEN 0 ELSE f[n] + SumTo(f, n - 1)

CeilDiv(a, b) == (a + b - 1) \div b

C2_SameImageAsOneCall ==
    /\ Encoding =>
          pixels = render(param, Zeros(Len(pixels)), bounds,
                          upper_left, lower_right).pixels
    /\ \A w \in Workers : Holding(w) =>
          \A f \in {band_frame(Band(w))} :
             \A c \in 0..(f.bounds[1] - 1), r \in 0..(f.bounds[2] - 1) :
                pixel_to_point(f.bounds, <<c, r>>, f.upper_left, f.lower_right)
                   = pixel_to_point(bounds, <<c, Band(w).i + r>>,
                                    upper_left, lower_right)

C2_Witness ==
    /\ pcMain = "exit"
    /\ Len(pixels) = 2 * MaxWidth
    /\ \E w1, w2 \in Workers : w1 # w2 /\ wcount[w1] = 1 /\ wcount[w2] = 1
    /\ \E k \in 1..MaxWidth : pixels[k] # pixels[k + MaxWidth]

\* C3: write_bitmap reads the buffer only after every spawned thread has
\* returned: while it reads, and after, no thread runs or holds a band, no
\* band is left in the source, and the buffer is what it read.
C3_JoinBarrier ==
    /\ Encoding =>
          /\ spawned = WorkerCount
          /\ \A w \in Workers : wpc[w] = "returned" /\ ~Holding(w)
          /\ bands.next = bands.len
    /\ IsSome(encoded) => Unwrap(encoded) = pixels

C3_Witness ==
    /\ pcMain = "write_bitmap"
    /\ \E w \in Workers : wcount[w] = 2
    /\ \A w \in Workers : wpc[w] = "returned"

\* C4: once a thread has panicked the buffer is never passed to
\* write_bitmap, and when the scope is left main has panicked too.
C4_WorkerFailureIsFatal ==
    (\E w \in Workers : wpc[w] = "panicked") =>
        /\ ~Encoding
        /\ pcMain \in {"spawn", "join", "panicked"}

C4_Witness ==
    /\ \E w \in Workers : wpc[w] = "panicked"
    /\ AllEnded
    /\ pcMain = "panicked"
    /\ encoded = None

C10_AssertionHolds ==
    \A w \in Workers :
        /\ wpc[w] # "panicked"
        /\ Holding(w) =>
              /\ Band(w).len = bounds[1] * (Band(w).len \div bounds[1])
              /\ Band(w).start + Band(w).len <= Len(pixels)

\* -------------------------------------------------------- render's claims
Frame == Unwrap(frame)

Escaped(z) == RGreater(norm_sqr(z), RInt(EscapeNormSqr))

\* The orbit of z under z <- z*z + c: its first n points after z, cut after
\* the first one that has escaped.
RECURSIVE Orbit(_, _, _)
Orbit(z, c, n) ==
    IF n = 0 THEN <<>>
    ELSE IF n = 1 THEN <<CAdd(CMul(z, z), c)>>
    ELSE LET head == Orbit(z, c, n \div 2)
         IN IF Escaped(head[Len(head)]) THEN head
            ELSE head \o Orbit(head[Len(head)], c, n - n \div 2)

\* outcome is the escape classification of the orbit started at z: Some(i)
\* for the first 0-based iteration i after which the orbit has escaped,
\* None when none of the first limit iterations has.
Classifies(outcome, z, c, limit) ==
    LET orbit == Orbit(z, c, limit)
    IN IF IsSome(outcome)
       THEN /\ Unwrap(outcome) < limit
            /\ Len(orbit) = Unwrap(outcome) + 1
            /\ Escaped(orbit[Len(orbit)])
            /\ \A j \in 1..(Len(orbit) - 1) : ~Escaped(orbit[j])
       ELSE /\ Len(orbit) = limit
            /\ \A j \in 1..Len(orbit) : ~Escaped(orbit[j])

Origin == Complex(RInt(0), RInt(0))

\* The examples of the claim, with the orbit started at the origin.
EscapesExamples ==
    /\ \A limit \in 0..IterLimit : escapes(Origin, Origin, limit) = None
    /\ \A limit \in 1..IterLimit :
          escapes(Origin, Complex(RInt(5), RInt(5)), limit) = Some(0)

\* The pixel render has just classified: its point, as a complex number.
Classified == IsSome(frame) /\ IsSome(Frame.point)
FramePoint == Complex(Unwrap(Frame.point)[1], Unwrap(Frame.point)[2])

ExpectedByte(f, c, r) ==
    LET point == pixel_to_point(f.bounds, <<c, r>>, f.upper_left, f.lower_right)
        outcome == escapes_at(Complex(point[1], point[2]), f.param)
    IN IF IsSome(outcome) THEN 255 - Unwrap(outcome) ELSE 0

\* C6: render stores every pixel of its region exactly once, pixel (c, r)
\* at index r * width + c: 0 when the classification with limit 255 is
\* None, 255 - count when it is Some(count).  count is at most 254, so an
\* escaping pixel gets a byte of 1..255, and every byte is in 0..255.
C6_RenderWritesEveryPixel ==
    IsSome(frame) =>
        LET f == Frame
            width == f.bounds[1]
            height == f.bounds[2]
            done(c, r) == f.pc = "returned" \/ r < f.r \/ (r = f.r /\ c < f.c)
        IN /\ \A k \in 1..Len(f.pixels) :
                 f.writes[k] <= 1 /\ f.pixels[k] \in 0..255
           /\ f.pc \in {"loop", "returned"} =>
                 /\ Len(f.pixels) = width * height
                 /\ \A c \in 0..(width - 1), r \in 0..(height - 1) :
                       IF done(c, r)
                       THEN /\ f.writes[r * width + c + 1] = 1
                            /\ f.pixels[r * width + c + 1] = ExpectedByte(f, c, r)
                       ELSE f.writes[r * width + c + 1] = 0
           /\ IsSome(f.outcome) =>
                 /\ Unwrap(f.outcome) <= 254
                 /\ \E k \in 1..Len(f.pixels) :
                       /\ f.pixels[k] = 255 - Unwrap(f.outcome)
                       /\ f.pixels[k] \in 1..255

C6_Witness ==
    /\ IsSome(frame)
    /\ Frame.pc = "returned"
    /\ Frame.bounds = <<2, 2>>
    /\ \E j, k \in 1..4 : Frame.pixels[j] = 0 /\ Frame.pixels[k] = 254
====
